---- MODULE Spec2Model ----
(***************************************************************************)
(* Model of src/main.py: the console session engine (class Command, class  *)
(* Connection).  Console text is modelled as a sequence of text fragments:  *)
(* a fragment is one of the literal strings the program looks for, so that  *)
(* `x in response` is "x is a contiguous sub-sequence of response" and      *)
(* `response.endswith(x)` is "x is a suffix of response".                   *)
(***************************************************************************)
EXTENDS Integers, Sequences, FiniteSets, TLC

VARIABLES
    pc,            \* where the Connection is: "new", "seek", "password", "open", "failed", "closed"
    access_level,  \* Connection.access_level
    wait_fors,     \* Connection.wait_fors (a Python list)
    response,      \* the response returned by the last send_command / get_response
    written,       \* every line handed to ser.write, in order (line terminator left implicit)
    i,             \* number of iterations of login's for-loop that ran their body to the end
    op,            \* the operation the last step belongs to
    cmd,           \* the Command given to the last execute_command (None before)
    result,        \* how the last operation ended: "returned" or the exception raised
    nexec,         \* number of execute_command calls made so far
    script,        \* ScriptSpec only: the responses the device will give to the next polls
    message,       \* the message of the exception the last operation raised, <<>> when it returned
    main_pc,       \* MainSpec only: where main is
    commands       \* MainSpec only: config.commands

vars == <<pc, access_level, wait_fors, response, written, i, op, cmd, result, nexec, script,
          message, main_pc, commands>>

\* what the operations of Connection leave alone
outer == <<script, main_pc, commands>>

None == "None"

\* how many execute_command calls the owner of the session makes
MaxExec == 2

-----------------------------------------------------------------------------
(* Text fragments *)

LOGIN_NAME      == "Please Enter Login Name:"
PASSWORD_PROMPT == "Please Enter Password:"
LOGIN_OK        == "User login successful"
CONFIG_TAG      == "(config)"
HASH            == "#"
GT              == ">"
RSA_CREATING    == "Creating RSA key pair, please wait"
KEY_EXISTS      == "Key already exists"
RSA_DONE        == "RSA Key pair is successfully created"
CERT_DONE       == "ssl-certificate creation is successful"

\* config.username / config.password: two opaque lines
USERNAME == "<config.username>"
PASSWORD == "<config.password>"
EMPTY_LINE == ""

\* what the device may answer while a session is being opened / while it is open
OpenFragments    == {LOGIN_NAME, PASSWORD_PROMPT, LOGIN_OK, CONFIG_TAG, HASH, GT}
SessionFragments == {RSA_CREATING, KEY_EXISTS, RSA_DONE, CERT_DONE}

TextsOver(F) == {<<>>} \cup {<<a>> : a \in F} \cup {<<a, b>> : a \in F, b \in F}

\* a text followed by the configuration-mode prompt
ConfigPrompted(F) == {<<a, CONFIG_TAG, HASH>> : a \in F}

OpenResponses    == TextsOver(OpenFragments) \cup ConfigPrompted(OpenFragments)
SessionResponses == TextsOver(SessionFragments)

-----------------------------------------------------------------------------
(* Python string primitives *)

\* `x in s` for strings
Contains(s, x) ==
    \E k \in 1..(Len(s) - Len(x) + 1) : SubSeq(s, k, k + Len(x) - 1) = x

\* s.endswith(x)
EndsWith(s, x) ==
    /\ Len(x) <= Len(s)
    /\ SubSeq(s, Len(s) - Len(x) + 1, Len(s)) = x

\* Python truthiness of an optional string
Truthy(x) == x # None /\ x # <<>>

Range(s) == {s[k] : k \in 1..Len(s)}

-----------------------------------------------------------------------------
(* class Command *)

\* Command.__init__(command_dict)
Command(command_dict) ==
    [command          |-> command_dict.command,
     wait_for         |-> IF "wait_for" \in DOMAIN command_dict
                          THEN command_dict.wait_for ELSE None,
     validators       |-> IF "validators" \in DOMAIN command_dict
                          THEN command_dict.validators ELSE <<>>,
     error_validators |-> IF "error_validators" \in DOMAIN command_dict
                          THEN command_dict.error_validators ELSE <<>>]

\* Command.validate_response: "error" when it raises, else the boolean returned
validate_response_ValidatorsFirst(self, resp) ==
    IF self.validators = <<>> \/ \E v \in Range(self.validators) : Contains(resp, v)
    THEN IF \E e \in Range(self.error_validators) : Contains(resp, e)
         THEN IF self.validators = <<>> THEN "error" ELSE "true"
         ELSE "true"
    ELSE "false"

validate_response_AllValidators(self, resp) ==
    IF \E e \in Range(self.error_validators) : Contains(resp, e) THEN "error"
    ELSE IF self.validators = <<>> THEN "true"
    ELSE IF \A v \in Range(self.validators) : Contains(resp, v) THEN "true"
    ELSE "false"

validate_response(self, resp) ==
    IF \E e \in Range(self.error_validators) : Contains(resp, e) THEN "error"
    ELSE IF self.validators = <<>> THEN "true"
    ELSE IF \E v \in Range(self.validators) : Contains(resp, v) THEN "true"
    ELSE "false"

-----------------------------------------------------------------------------
(* config.commands: the dictionaries main turns into Commands (external input) *)

\* the key-pair command with the texts of CommandFactory.create_rsa_key_command
RsaKeyDict ==
    [command    |-> "crypto key generate rsa",
     wait_for   |-> <<RSA_DONE>>,
     validators |-> << <<RSA_CREATING>>, <<KEY_EXISTS>> >>]

\* the same with "Key already exists" declared as an error
RsaKeyStrictDict ==
    [command          |-> "crypto key generate rsa modulus 2048",
     wait_for         |-> <<RSA_DONE>>,
     validators       |-> << <<RSA_CREATING>> >>,
     error_validators |-> << <<KEY_EXISTS>> >>]

\* a command that declares a completion marker and nothing else
CertWaitDict ==
    [command    |-> "crypto-ssl certificate generate",
     wait_for   |-> <<CERT_DONE>>]

\* a command that declares an error marker and nothing else
GuardedDict ==
    [command          |-> "ip ssh server enable",
     error_validators |-> << <<KEY_EXISTS>> >>]

CommandDicts == {RsaKeyDict, RsaKeyStrictDict, CertWaitDict, GuardedDict}

-----------------------------------------------------------------------------
(* class Connection *)

\* Connection.check_access_level
check_access_level_HashFirst(resp) ==
    IF EndsWith(resp, <<HASH>>) THEN "PRIVILEGED"
    ELSE IF EndsWith(resp, <<CONFIG_TAG, HASH>>) THEN "CONFIG"
    ELSE IF EndsWith(resp, <<GT>>) THEN "USER"
    ELSE "LOGGED_OUT"

check_access_level(resp) ==
    IF EndsWith(resp, <<CONFIG_TAG, HASH>>) THEN "CONFIG"
    ELSE IF EndsWith(resp, <<HASH>>) THEN "PRIVILEGED"
    ELSE IF EndsWith(resp, <<GT>>) THEN "USER"
    ELSE "LOGGED_OUT"

\* Connection.get_response, its effect on wait_fors: the first element of the
\* list that occurs in the response is removed, and the scan stops there
FirstMatch(wf, resp) ==
    LET hits == {k \in 1..Len(wf) : Contains(resp, wf[k])}
    IN  IF hits = {} THEN 0 ELSE CHOOSE k \in hits : \A j \in hits : k <= j

RemoveAt(wf, k) == SubSeq(wf, 1, k - 1) \o SubSeq(wf, k + 1, Len(wf))

get_response(wf, resp) ==
    IF FirstMatch(wf, resp) = 0 THEN wf ELSE RemoveAt(wf, FirstMatch(wf, resp))

\* range(5) in Connection.login
LoginTries_Short == 5 - 1

LoginTries == 5

\* line 75: the login sequencer runs when the first classification is LOGGED_OUT
LoginNeeded_Always(level) == TRUE

LoginNeeded(level) == level = "LOGGED_OUT"

\* line 79: assert self.access_level is not AccessLevel.LOGGED_OUT
ConstructedAssert_Off(level) == TRUE

ConstructedAssert(level) == level # "LOGGED_OUT"

\* line 115: assert 'Please Enter Password:' in response
PasswordPromptAssert_Off(resp) == TRUE

PasswordPromptAssert(resp) == Contains(resp, <<PASSWORD_PROMPT>>)

\* line 117: assert 'User login successful' in response
LoginSuccessAssert(resp) == Contains(resp, <<LOGIN_OK>>)

\* line 108: 'Please Enter Login Name:' in response
PromptSeen_Always(resp) == TRUE

PromptSeen(resp) == Contains(resp, <<LOGIN_NAME>>)

InitConnection ==
    /\ pc = "new"
    /\ access_level = "UNSET"
    /\ wait_fors = <<>>
    /\ response = <<>>
    /\ written = <<>>
    /\ i = 0
    /\ op = "none"
    /\ cmd = None
    /\ result = "none"
    /\ nexec = 0
    /\ message = <<>>

Init ==
    /\ InitConnection
    /\ script = <<>>
    /\ main_pc = "none"
    /\ commands = <<>>

\* Connection.__init__ lines 60-75 (and 79 when login is skipped):
\* the empty probing line, its response r, the first classification
InitialProbe(r) ==
    /\ pc = "new"
    /\ written' = Append(written, EMPTY_LINE)
    /\ response' = r
    /\ wait_fors' = get_response(<<>>, r)
    /\ access_level' = check_access_level(r)
    /\ op' = "probe"
    /\ IF LoginNeeded(check_access_level(r))
       THEN pc' = "seek" /\ result' = "none"
       ELSE IF ConstructedAssert(check_access_level(r))
            THEN pc' = "open" /\ result' = "returned"
            ELSE pc' = "failed" /\ result' = "AssertionError:79"
    /\ UNCHANGED <<i, cmd, nexec, message>>

\* Connection.login lines 107-110: one iteration that does not break
SeekProbe(r) ==
    /\ pc = "seek"
    /\ i < LoginTries
    /\ ~PromptSeen(response)
    /\ written' = Append(written, EMPTY_LINE)
    /\ response' = r
    /\ wait_fors' = get_response(wait_fors, r)
    /\ i' = i + 1
    /\ op' = "seek"
    /\ UNCHANGED <<pc, access_level, cmd, result, nexec, message>>

\* Connection.login lines 111-112: the for-loop ran out without a break
SeekExhausted ==
    /\ pc = "seek"
    /\ i = LoginTries
    /\ pc' = "failed"
    /\ result' = "Exception:Could not find login prompt"
    /\ op' = "seek"
    /\ message' = <<"Could not find login prompt">>
    /\ UNCHANGED <<access_level, wait_fors, response, written, i, cmd, nexec>>

\* Connection.login lines 108-109 and 114-115: break, send the username
SendUsername(r) ==
    /\ pc = "seek"
    /\ i < LoginTries
    /\ PromptSeen(response)
    /\ written' = Append(written, USERNAME)
    /\ response' = r
    /\ wait_fors' = get_response(wait_fors, r)
    /\ op' = "username"
    /\ IF PasswordPromptAssert(r)
       THEN pc' = "password" /\ result' = "none"
       ELSE pc' = "failed" /\ result' = "AssertionError:115"
    /\ UNCHANGED <<access_level, i, cmd, nexec, message>>

\* Connection.login lines 116-119 and Connection.__init__ lines 76-79
SendPassword(r) ==
    /\ pc = "password"
    /\ written' = Append(written, PASSWORD)
    /\ response' = r
    /\ wait_fors' = get_response(wait_fors, r)
    /\ op' = "password"
    /\ IF ~LoginSuccessAssert(r)
       THEN /\ pc' = "failed"
            /\ result' = "AssertionError:117"
            /\ UNCHANGED access_level
       ELSE /\ access_level' = check_access_level(r)
            /\ IF ConstructedAssert(check_access_level(r))
               THEN pc' = "open" /\ result' = "returned"
               ELSE pc' = "failed" /\ result' = "AssertionError:79"
    /\ UNCHANGED <<i, cmd, nexec, message>>

\* line 127-128: the wait_fors list after a validated command
Register_Never(wf, c) == wf

Register_Unique(wf, c) ==
    IF Truthy(c.wait_for) /\ c.wait_for \notin Range(wf) THEN Append(wf, c.wait_for) ELSE wf

Register(wf, c) == IF Truthy(c.wait_for) THEN Append(wf, c.wait_for) ELSE wf

\* line 19: f"Error in command execution: {error}", for the first error
\* marker of the list that occurs in the response
ErrorMarkerMessage(c, r) ==
    LET hits == {k \in 1..Len(c.error_validators) : Contains(r, c.error_validators[k])}
        first == CHOOSE k \in hits : \A j \in hits : k <= j
    IN  <<"Error in command execution: ">> \o c.error_validators[first]

\* line 125: f"Command '{command.command}' failed validation.\nResponse: {response}"
ValidationMessage_NoResponse(c, r) ==
    <<"Command '", c.command, "' failed validation.">>

ValidationMessage(c, r) ==
    <<"Command '", c.command, "' failed validation.\nResponse: ">> \o r

\* Connection.execute_command lines 122-130, on the list: the poll of
\* send_command first, then validation, then the registration
execute_command_RegistersFirst(wf, c, r) ==
    LET polled == Register(get_response(wf, r), c)
        valid  == validate_response(c, r)
    IN  CASE valid = "error" ->
               [result |-> "Exception:Error in command execution", wait_fors |-> polled,
                message |-> ErrorMarkerMessage(c, r)]
          [] valid = "false" ->
               [result |-> "Exception:failed validation", wait_fors |-> polled,
                message |-> ValidationMessage(c, r)]
          [] OTHER ->
               [result |-> "returned", wait_fors |-> polled, message |-> <<>>]

execute_command(wf, c, r) ==
    LET polled == get_response(wf, r)
        valid  == validate_response(c, r)
    IN  CASE valid = "error" ->
               [result |-> "Exception:Error in command execution", wait_fors |-> polled,
                message |-> ErrorMarkerMessage(c, r)]
          [] valid = "false" ->
               [result |-> "Exception:failed validation", wait_fors |-> polled,
                message |-> ValidationMessage(c, r)]
          [] OTHER ->
               [result |-> "returned", wait_fors |-> Register(polled, c), message |-> <<>>]

\* a call of Connection.execute_command (send_command and get_response included)
ExecuteCommand_Reclassifies(d, r) ==
    /\ pc = "open"
    /\ nexec < MaxExec
    /\ nexec' = nexec + 1
    /\ cmd' = Command(d)
    /\ written' = Append(written, Command(d).command)
    /\ response' = r
    /\ op' = "execute_command"
    /\ result' = execute_command(wait_fors, Command(d), r).result
    /\ wait_fors' = execute_command(wait_fors, Command(d), r).wait_fors
    /\ message' = execute_command(wait_fors, Command(d), r).message
    /\ access_level' = check_access_level(r)
    /\ UNCHANGED <<pc, i>>

ExecuteCommand(d, r) ==
    /\ pc = "open"
    /\ nexec < MaxExec
    /\ nexec' = nexec + 1
    /\ cmd' = Command(d)
    /\ written' = Append(written, Command(d).command)
    /\ response' = r
    /\ op' = "execute_command"
    /\ result' = execute_command(wait_fors, Command(d), r).result
    /\ wait_fors' = execute_command(wait_fors, Command(d), r).wait_fors
    /\ message' = execute_command(wait_fors, Command(d), r).message
    /\ UNCHANGED <<pc, access_level, i>>

\* Connection.get_response called by the owner of the session (main's drain loop)
GetResponse(r) ==
    /\ pc = "open"
    /\ response' = r
    /\ wait_fors' = get_response(wait_fors, r)
    /\ op' = "get_response"
    /\ result' = "returned"
    /\ message' = <<>>
    /\ UNCHANGED <<pc, access_level, written, i, cmd, nexec>>

\* Connection.close
Close ==
    /\ pc = "open"
    /\ pc' = "closed"
    /\ op' = "close"
    /\ result' = "returned"
    /\ message' = <<>>
    /\ UNCHANGED <<access_level, wait_fors, response, written, i, cmd, nexec>>

Open ==
    \/ \E r \in OpenResponses : InitialProbe(r) /\ UNCHANGED outer
    \/ \E r \in OpenResponses : SeekProbe(r) /\ UNCHANGED outer
    \/ SeekExhausted /\ UNCHANGED outer
    \/ \E r \in OpenResponses : SendUsername(r) /\ UNCHANGED outer
    \/ \E r \in OpenResponses : SendPassword(r) /\ UNCHANGED outer

Session ==
    \/ \E d \in CommandDicts, r \in SessionResponses : ExecuteCommand(d, r) /\ UNCHANGED outer
    \/ \E r \in SessionResponses : GetResponse(r) /\ UNCHANGED outer
    \/ Close /\ UNCHANGED outer

Next == Open \/ Session

Spec == Init /\ [][Next]_vars

-----------------------------------------------------------------------------
(* Opening a session against a device whose answers are scripted: the n-th  *)
(* poll returns the n-th response of the script, and the empty string once  *)
(* the script is used up.  Every write is followed by exactly one poll.     *)

\* how many empty responses a script may start with
MaxEmpties == 5

ScriptResponses ==
    {<<>>, <<LOGIN_NAME>>, <<PASSWORD_PROMPT>>, <<LOGIN_OK>>,
     <<LOGIN_OK, GT>>, <<LOGIN_OK, HASH>>, <<GT>>}

Empties(k) == [n \in 1..k |-> <<>>]

Scripts ==
    {Empties(k) \o t : k \in 0..MaxEmpties, t \in [1..3 -> ScriptResponses]}

ScriptedResponse ==
    IF Len(written) < Len(script) THEN script[Len(written) + 1] ELSE <<>>

ScriptInit ==
    /\ InitConnection
    /\ script \in Scripts
    /\ main_pc = "none"
    /\ commands = <<>>

ScriptNext ==
    \/ InitialProbe(ScriptedResponse) /\ UNCHANGED outer
    \/ SeekProbe(ScriptedResponse) /\ UNCHANGED outer
    \/ SeekExhausted /\ UNCHANGED outer
    \/ SendUsername(ScriptedResponse) /\ UNCHANGED outer
    \/ SendPassword(ScriptedResponse) /\ UNCHANGED outer

ScriptSpec == ScriptInit /\ [][ScriptNext]_vars

\* the program is one thread that always takes its next step
ScriptLiveSpec == ScriptSpec /\ WF_vars(ScriptNext)

-----------------------------------------------------------------------------
(* main(), lines 153-180, against a device that answers each poll freely *)

NVRAM_SAVED == "Configuration saved to NVRAM"
PRESS_ENTER == "Press Enter key to login"

\* config.commands: a list of command dictionaries
CommandLists == UNION {[1..n -> CommandDicts] : n \in 0..MaxExec}

\* Python's binding of the call Command(**kwargs) to __init__(self, command_dict):
\* a keyword that is not a parameter raises TypeError
Construct(kwargs) ==
    IF DOMAIN kwargs = {"command_dict"} THEN Command(kwargs.command_dict) ELSE "TypeError"

\* lines 172-174: the keyword arguments of the three closing commands
WriteMemArgs   == [command |-> "write memory", validators |-> << <<NVRAM_SAVED>> >>]
ToUserModeArgs == [command |-> "exit", validators |-> << <<GT>> >>]
ToLogoutArgs   == [command |-> "exit", validators |-> << <<PRESS_ENTER>> >>]

ClosingResponses == TextsOver({NVRAM_SAVED, GT, PRESS_ENTER})

MainInit ==
    /\ InitConnection
    /\ script = <<>>
    /\ main_pc = "connect"
    /\ commands \in CommandLists

\* line 153: conn = Connection(port); an exception of __init__ ends main
MainConnect(step) ==
    /\ main_pc = "connect"
    /\ step
    /\ main_pc' = IF pc' = "open" THEN "commands"
                  ELSE IF pc' = "failed" THEN "crashed"
                  ELSE "connect"
    /\ UNCHANGED <<script, commands>>

\* lines 161-163: an exception of execute_command breaks out of the for-loop
AfterCommand_NoBreak(res) == "commands"

AfterCommand(res) == IF res = "returned" THEN "commands" ELSE "drain"

\* lines 156-163: one iteration of the for-loop over config.commands
MainCommand(r) ==
    /\ main_pc = "commands"
    /\ nexec < Len(commands)
    /\ ExecuteCommand(commands[nexec + 1], r)
    /\ main_pc' = AfterCommand(result')
    /\ UNCHANGED <<script, commands>>

\* line 156: the list is exhausted
MainCommandsDone ==
    /\ main_pc = "commands"
    /\ nexec = Len(commands)
    /\ main_pc' = "drain"
    /\ UNCHANGED <<pc, access_level, wait_fors, response, written, i, op, cmd, result,
                   nexec, script, message, commands>>

\* lines 165-170: one iteration of the while-loop
MainDrain(r) ==
    /\ main_pc = "drain"
    /\ wait_fors # <<>>
    /\ GetResponse(r)
    /\ UNCHANGED <<main_pc, script, commands>>

\* line 165: the while-loop ends
MainDrained ==
    /\ main_pc = "drain"
    /\ wait_fors = <<>>
    /\ main_pc' = "closing"
    /\ UNCHANGED <<pc, access_level, wait_fors, response, written, i, op, cmd, result,
                   nexec, script, message, commands>>

\* lines 172-180: the three closing commands are built, then executed in
\* order, then the transport is closed; an exception on the way ends main
MainClosing ==
    /\ main_pc = "closing"
    /\ LET wm == Construct(WriteMemArgs)
           um == Construct(ToUserModeArgs)
           lo == Construct(ToLogoutArgs)
       IN  IF "TypeError" \in {wm, um, lo}
           THEN /\ main_pc' = "crashed"
                /\ op' = "main"
                /\ result' = "TypeError"
                /\ message' = <<"Command.__init__() got an unexpected keyword argument">>
                /\ UNCHANGED <<pc, access_level, wait_fors, response, written, i, cmd, nexec>>
           ELSE \E r1, r2, r3 \in ClosingResponses :
                  LET e1 == execute_command(wait_fors, wm, r1)
                      e2 == execute_command(e1.wait_fors, um, r2)
                      e3 == execute_command(e2.wait_fors, lo, r3)
                      n  == IF e1.result # "returned" THEN 1
                            ELSE IF e2.result # "returned" THEN 2 ELSE 3
                      en == <<e1, e2, e3>>[n]
                  IN  /\ written' = written \o SubSeq(<<wm.command, um.command, lo.command>>, 1, n)
                      /\ response' = <<r1, r2, r3>>[n]
                      /\ cmd' = <<wm, um, lo>>[n]
                      /\ nexec' = nexec + n
                      /\ wait_fors' = en.wait_fors
                      /\ message' = en.message
                      /\ IF en.result = "returned"
                         THEN pc' = "closed" /\ op' = "close" /\ result' = "returned"
                                /\ main_pc' = "done"
                         ELSE pc' = pc /\ op' = "execute_command" /\ result' = en.result
                                /\ main_pc' = "crashed"
                      /\ UNCHANGED <<access_level, i>>
    /\ UNCHANGED <<script, commands>>

MainNext ==
    \/ \E r \in OpenResponses : MainConnect(InitialProbe(r))
    \/ \E r \in OpenResponses : MainConnect(SeekProbe(r))
    \/ MainConnect(SeekExhausted)
    \/ \E r \in OpenResponses : MainConnect(SendUsername(r))
    \/ \E r \in OpenResponses : MainConnect(SendPassword(r))
    \/ \E r \in SessionResponses : MainCommand(r)
    \/ MainCommandsDone
    \/ \E r \in SessionResponses : MainDrain(r)
    \/ MainDrained
    \/ MainClosing

MainSpec == MainInit /\ [][MainNext]_vars

-----------------------------------------------------------------------------
(* Properties *)

Constructed == pc \in {"open", "closed"}

OpenSteps == {"probe", "seek", "username", "password"}

EndsInPrompt(resp) == EndsWith(resp, <<HASH>>) \/ EndsWith(resp, <<GT>>)

Last(s) == s[Len(s)]

\* C1: once construction has returned, access_level is USER, PRIVILEGED or
\* CONFIG, whatever execute_command, get_response and close do afterwards; and
\* when the last response obtained while opening does not end in a prompt
\* (classifies as LOGGED_OUT), no session is constructed.
C1_NeverLoggedOut ==
    /\ Constructed => access_level \in {"USER", "PRIVILEGED", "CONFIG"}
    /\ (op \in OpenSteps /\ ~EndsInPrompt(response)) => ~Constructed
    /\ (op = "password" /\ ~EndsInPrompt(response)) => pc = "failed"

C1_Witness ==
    /\ pc = "closed"
    /\ nexec > 0
    /\ USERNAME \in Range(written)
    /\ access_level = "PRIVILEGED"

\* C2: the password is written only in answer to a response to the username
\* that contains the password prompt; the session is constructed after the
\* password only if the response to it contains the success text; a username
\* or password answered otherwise makes open fail, and nothing is written
\* after a failure.
C2_HandshakeGuarded ==
    [][ /\ (written' # written /\ Last(written') = PASSWORD)
            => (Last(written) = USERNAME /\ Contains(response, <<PASSWORD_PROMPT>>))
        /\ (written' # written /\ Last(written') = USERNAME
              /\ ~Contains(response', <<PASSWORD_PROMPT>>))
            => pc' = "failed"
        /\ (written' # written /\ Last(written') = PASSWORD)
            => IF Contains(response', <<LOGIN_OK>>)
               THEN pc' \in {"open", "failed"}
               ELSE pc' = "failed"
        /\ pc = "failed" => (written' = written /\ pc' = "failed")
      ]_vars

C2_Witness ==
    /\ pc = "open"
    /\ op = "password"
    /\ Last(written) = PASSWORD
    /\ Contains(response, <<LOGIN_OK>>)

\* C3: when the response to the initial probe ends in a prompt, open returns
\* at once with the level of that prompt, having written the probing line and
\* nothing else; the login sequencer is only ever running at level LOGGED_OUT.
C3_LoginSkipped ==
    /\ (op = "probe" /\ EndsInPrompt(response))
         => /\ pc = "open"
            /\ written = <<EMPTY_LINE>>
            /\ access_level = IF EndsWith(response, <<GT>>) THEN "USER"
                              ELSE IF EndsWith(response, <<CONFIG_TAG, HASH>>) THEN "CONFIG"
                              ELSE "PRIVILEGED"
    /\ pc \in {"seek", "password"} => access_level = "LOGGED_OUT"

C3_Witness ==
    /\ pc = "open"
    /\ op = "probe"
    /\ access_level = "CONFIG"
    /\ written = <<EMPTY_LINE>>

\* C4: login fails with "Could not find login prompt" only if no response to
\* its empty-line probes contained the prompt; a probe answered by the prompt
\* is followed by the username.
C4_PromptWithinBound ==
    result = "Exception:Could not find login prompt" => ~Contains(response, <<LOGIN_NAME>>)

\* the lines open writes when the login prompt comes after k empty responses
LoginLines(k) == [n \in 1..(k + 1) |-> EMPTY_LINE] \o <<USERNAME, PASSWORD>>

\* a script of k empty responses, then the login prompt, the password prompt
\* and the success text, for a device that is logged out
LoginScript(k) ==
    /\ Len(script) = k + 3
    /\ \A n \in 1..k : script[n] = <<>>
    /\ Contains(script[k + 1], <<LOGIN_NAME>>)
    /\ Contains(script[k + 2], <<PASSWORD_PROMPT>>)
    /\ Contains(script[k + 3], <<LOGIN_OK>>)
    /\ ~EndsInPrompt(script[1])

OpenDone == pc \in {"open", "failed"}

SpecScript ==
    <<<<>>, <<>>, <<LOGIN_NAME>>, <<PASSWORD_PROMPT>>, <<LOGIN_OK>>>>

\* C5 as stated: against the scripted poll sequence ["", "", login prompt,
\* password prompt, "User login successful"] open succeeds and the session
\* is constructed.
C5_ScriptedLoginSucceeds ==
    (script = SpecScript /\ OpenDone) => pc = "open"

\* C5 as amended: for a logged-out device answering k <= 4 empty responses,
\* then the login prompt, the password prompt and the success text, open
\* writes k + 1 empty lines, the username once and the password once; the
\* session is constructed exactly when the success response ends in a prompt,
\* and otherwise open fails at its final assertion.
C5_ScriptedLogin ==
    \A k \in 0..4 :
        (LoginScript(k) /\ OpenDone)
            => /\ written = LoginLines(k)
               /\ response = script[k + 3]
               /\ IF EndsInPrompt(script[k + 3])
                  THEN pc = "open" /\ result = "returned"
                         /\ access_level \in {"USER", "PRIVILEGED"}
                  ELSE pc = "failed" /\ result = "AssertionError:79"

C5_Witness ==
    /\ script = <<<<>>, <<>>, <<LOGIN_NAME>>, <<PASSWORD_PROMPT>>, <<LOGIN_OK, GT>>>>
    /\ pc = "open"
    /\ written = <<EMPTY_LINE, EMPTY_LINE, EMPTY_LINE, USERNAME, PASSWORD>>
    /\ access_level = "USER"

ErrorMarkerIn(c, resp) == \E e \in Range(c.error_validators) : Contains(resp, e)

SuccessMarkerIn(c, resp) == \E v \in Range(c.validators) : Contains(resp, v)

\* C6: when an error marker of the command occurs in the response,
\* execute_command ends in the error-marker exception, also when a success
\* marker occurs in the response too.
C6_ErrorPrecedence ==
    (op = "execute_command" /\ ErrorMarkerIn(cmd, response))
        => result = "Exception:Error in command execution"

C6_Witness ==
    /\ op = "execute_command"
    /\ ErrorMarkerIn(cmd, response)
    /\ SuccessMarkerIn(cmd, response)
    /\ result = "Exception:Error in command execution"

\* C7: when no error marker of the command occurs in the response, the
\* response is valid if the command declares no success markers, and else
\* exactly when one of its success markers occurs in the response; an invalid
\* response ends execute_command in the validation-failure exception.
C7_SuccessMarkers ==
    (op = "execute_command" /\ ~ErrorMarkerIn(cmd, response))
        => IF cmd.validators = <<>> \/ SuccessMarkerIn(cmd, response)
           THEN result = "returned"
           ELSE result = "Exception:failed validation"

C7_Witness ==
    /\ op = "execute_command"
    /\ Len(cmd.validators) = 2
    /\ Contains(response, cmd.validators[2])
    /\ ~Contains(response, cmd.validators[1])
    /\ result = "returned"

\* C8: the level open stores is decided by the suffix of the response alone:
\* "(config)#" gives CONFIG, any other "#" PRIVILEGED, ">" USER, and
\* everything else, the empty response included, LOGGED_OUT.
C8_Classification ==
    (op = "probe" \/ (op = "password" /\ result # "AssertionError:117"))
        => /\ EndsWith(response, <<CONFIG_TAG, HASH>>) => access_level = "CONFIG"
           /\ (EndsWith(response, <<HASH>>) /\ ~EndsWith(response, <<CONFIG_TAG, HASH>>))
                => access_level = "PRIVILEGED"
           /\ EndsWith(response, <<GT>>) => access_level = "USER"
           /\ ~EndsInPrompt(response) => access_level = "LOGGED_OUT"
           /\ response = <<>> => access_level = "LOGGED_OUT"

C8_Witness ==
    /\ op = "password"
    /\ pc = "open"
    /\ response = <<LOGIN_OK, CONFIG_TAG, HASH>>
    /\ access_level = "CONFIG"

\* C9: execute_command writes the command text, once; when it returns and the
\* command declares a completion marker, that marker is the last element of
\* the pending list, also when the response already contains it; when the
\* command declares none, the pending list gains nothing.
C9_Registers ==
    [][ op' = "execute_command"
          => /\ written' = Append(written, cmd'.command)
             /\ (result' = "returned" /\ cmd'.wait_for # None)
                  => (wait_fors' # <<>> /\ Last(wait_fors') = cmd'.wait_for
                        /\ Len(wait_fors') >= Len(wait_fors))
             /\ cmd'.wait_for = None
                  => (Len(wait_fors') <= Len(wait_fors)
                        /\ Range(wait_fors') \subseteq Range(wait_fors))
      ]_vars

C9_Witness ==
    /\ op = "execute_command"
    /\ result = "returned"
    /\ cmd.wait_for # None
    /\ Contains(response, cmd.wait_for)
    /\ Last(wait_fors) = cmd.wait_for

Count(wf, m) == Cardinality({k \in 1..Len(wf) : wf[k] = m})

\* C11: across a poll, a pending marker that does not occur in the response
\* stays pending, and a pending marker that occurs in the response is removed
\* (one occurrence of it leaves the pending list).
C11_FirstPollRemoves ==
    [][ op' = "get_response"
          => \A m \in Range(wait_fors) :
                Count(wait_fors', m)
                  = Count(wait_fors, m) - (IF Contains(response', m) THEN 1 ELSE 0)
      ]_vars

\* C13 as stated: the exception that ends a failing execute_command carries
\* the text of the command and the whole response.
C13_ErrorsCarryContext ==
    (op = "execute_command" /\ result # "returned")
        => (Contains(message, <<cmd.command>>) /\ Contains(message, response))

\* C13 as amended: the exception of a validator failure carries the text of
\* the command and ends with the whole response; the exception of an
\* error-marker match carries the matched error marker and not the text of
\* the command.
C13_ErrorMessages ==
    (op = "execute_command" /\ result # "returned")
        => IF \E e \in Range(cmd.error_validators) : Contains(response, e)
           THEN /\ \E e \in Range(cmd.error_validators) :
                      /\ Contains(response, e)
                      /\ message = <<"Error in command execution: ">> \o e
                /\ ~Contains(message, <<cmd.command>>)
           ELSE /\ Contains(message, <<cmd.command>>)
                /\ EndsWith(message, response)
                /\ Len(message) = 3 + Len(response)

C13_Witness ==
    /\ op = "execute_command"
    /\ result = "Exception:failed validation"
    /\ Len(response) = 2
    /\ EndsWith(message, response)

NoPromptScript == \A n \in 1..Len(script) : ~Contains(script[n], <<LOGIN_NAME>>)

\* C17: against a device that never shows the login prompt, open ends; the
\* username and the password are never written, at most 5 empty lines follow
\* the initial probe, and when login ran it ends in "Could not find login
\* prompt" after exactly those 5 probes.
C17_PromptNeverComes ==
    /\ [](NoPromptScript
            => /\ USERNAME \notin Range(written)
               /\ PASSWORD \notin Range(written)
               /\ Len(written) <= 6
               /\ pc = "failed"
                    => /\ result = "Exception:Could not find login prompt"
                       /\ written = [n \in 1..6 |-> EMPTY_LINE])
    /\ (NoPromptScript ~> OpenDone)
    /\ ((NoPromptScript /\ pc = "seek") ~> pc = "failed")

C17_Witness ==
    /\ NoPromptScript
    /\ pc = "failed"
    /\ result = "Exception:Could not find login prompt"
    /\ Len(written) = 6

\* C18: a poll whose response contains two distinct pending markers removes
\* both of them.
C18_AllMatchesRemoved ==
    [][ op' = "get_response"
          => \A m1, m2 \in Range(wait_fors) :
                (m1 # m2 /\ Contains(response', m1) /\ Contains(response', m2))
                    => (m1 \notin Range(wait_fors') /\ m2 \notin Range(wait_fors'))
      ]_vars

C20_LevelFrozen ==
    [][ Constructed => access_level' = access_level ]_vars

C20_Witness ==
    /\ op = "execute_command"
    /\ result = "returned"
    /\ access_level = "CONFIG"
    /\ ~EndsInPrompt(response)

\* no two commands of the configured list declare the same completion marker
DistinctMarkers ==
    \A a, b \in 1..Len(commands) :
        (a # b /\ "wait_for" \in DOMAIN commands[a] /\ "wait_for" \in DOMAIN commands[b])
            => commands[a].wait_for # commands[b].wait_for

\* C12: when no marker is awaited twice, the drain loop goes on waiting only
\* while some awaited text has not been emitted: after a poll of the loop that
\* leaves markers pending, one of them does not occur in the polled response;
\* and the loop is left only with nothing pending.
C12_DrainEnds ==
    /\ (DistinctMarkers /\ main_pc = "drain" /\ op = "get_response" /\ wait_fors # <<>>)
         => \E m \in Range(wait_fors) : ~Contains(response, m)
    /\ main_pc \in {"closing", "done"} => wait_fors = <<>>

\* the lines written after the session was opened
IsCommandLine(l) == l \notin {EMPTY_LINE, USERNAME, PASSWORD}

CommandLines == SelectSeq(written, IsCommandLine)

\* C14: the lines main writes for the configured list are the texts of its
\* first commands, each once and in list order; a command is written only when
\* every command before it returned, so nothing of the list is written after
\* the first command that raised.
C14_InOrderUntilError ==
    /\ [](main_pc \in {"commands", "drain"}
            => /\ nexec <= Len(commands)
               /\ CommandLines = [n \in 1..nexec |-> commands[n].command])
    /\ [][ (written' # written /\ main_pc \in {"commands", "drain"})
             => /\ main_pc = "commands"
                /\ nexec > 0 => (op = "execute_command" /\ result = "returned")
                /\ written' = Append(written, commands[nexec + 1].command)
         ]_vars

C14_Witness ==
    /\ main_pc = "drain"
    /\ op = "execute_command"
    /\ result # "returned"
    /\ nexec = 1
    /\ Len(commands) = 2

\* C15: a run of main that opened a session and left the drain loop ends with
\* the transport closed.
C15_AlwaysCloses ==
    (main_pc \in {"crashed", "done"} /\ pc # "failed") => pc = "closed"

\* C16: a run of main that left the drain loop has written "write memory",
\* and when it ends the last three lines written are "write memory", "exit",
\* "exit" and the transport is closed.
C16_ClosingSequence ==
    (main_pc \in {"crashed", "done"} /\ pc # "failed")
        => /\ "write memory" \in Range(written)
           /\ main_pc = "done"
                => /\ pc = "closed"
                   /\ Len(written) >= 3
                   /\ SubSeq(written, Len(written) - 2, Len(written))
                        = <<"write memory", "exit", "exit">>

====
